---- MODULE Spec2Model ----
(***************************************************************************)
(* Model of spinny's RawRwSpinlock (src/src/lib.rs): one atomic usize      *)
(* holding the WRITER bit, the UPGRADED bit and the READER count, and the  *)
(* lock_api raw operations on it.  Every action is one atomic operation on *)
(* the word (one fetch_add, fetch_sub, fetch_or, fetch_and or              *)
(* compare_exchange) by one thread, so the interleavings of the model are  *)
(* the interleavings of the atomic operations of the code.  All atomic     *)
(* operations are on the one word, whose modification order is total, and  *)
(* every acquisition is Acquire and every release Release (or stronger),   *)
(* so a thread that has acquired the lock reads the protected value the    *)
(* previous holder left: the protected value is read and written in        *)
(* program order.  `hold` and `last` record what the callers know (the     *)
(* guard they own, what the last call returned); the word never depends   *)
(* on them.                                                                *)
(***************************************************************************)
EXTENDS Integers, FiniteSets

\* ---------------------------------------------------------------- bounds
NThreads == 3
NWorkers == 4
WordBits == 5

\* ------------------------------------------------------------- constants
READER == 4
UPGRADED == 2
WRITER == 1

\* the threads of the free-running client
Threads == 0 .. (NThreads - 1)

\* the closures a test kernel spawns, by their index i
Workers == 0 .. (NWorkers - 1)

RECURSIVE Pow2(_)
Pow2(n) == IF n = 0 THEN 1 ELSE 2 * Pow2(n - 1)

\* usize arithmetic wraps at the width of the word
Modulus == Pow2(WordBits)

RECURSIVE BitAnd(_, _)
BitAnd(a, b) ==
    IF a = 0 \/ b = 0 THEN 0
    ELSE (IF a % 2 = 1 /\ b % 2 = 1 THEN 1 ELSE 0) + 2 * BitAnd(a \div 2, b \div 2)

RECURSIVE BitOr(_, _)
BitOr(a, b) ==
    IF a = 0 THEN b
    ELSE IF b = 0 THEN a
    ELSE (IF a % 2 = 1 \/ b % 2 = 1 THEN 1 ELSE 0) + 2 * BitOr(a \div 2, b \div 2)

BitNot(a) == (Modulus - 1) - a

\* the value an atomic read-modify-write leaves in the word; each returns
\* the previous value to its caller
fetch_add(w, v) == (w + v) % Modulus
fetch_sub(w, v) == (w - v + Modulus) % Modulus
fetch_or(w, v) == BitOr(w, v)
fetch_and(w, v) == BitAnd(w, v)

\* compare_exchange and compare_exchange_weak: whether the exchange took
\* place, and the value it leaves in the word
compare_exchange(w, current, new) ==
    [ok |-> w = current, word |-> IF w = current THEN new ELSE w]

VARIABLES
    word,   \* the AtomicUsize
    pc,     \* per thread: the raw operation it is inside, and where
    hold,   \* per thread: the guard it owns ("none" when it owns none)
    last,   \* per thread: the call that last returned and what it returned
    task,   \* per thread: its position in the closure it runs
    data,   \* the protected integer
    flag,   \* the protected boolean (upgrade test)
    tmp,    \* per thread: the integer read for `+= 1`
    obs     \* per thread: the boolean an even thread read

vars == <<word, pc, hold, last, task, data, flag, tmp, obs>>

lockvars == <<word, pc, hold, last>>
datavars == <<data, flag, tmp, obs>>

\* no call has returned since the thread last started one
NoCall == <<"none", FALSE>>

\* ------------------------------------------------------ decisions in code
\* try_lock_shared: `value & (WRITER | UPGRADED) != 0` is the failure test
TryLockSharedOkIgnoresUpgraded(value) == BitAnd(value, WRITER) = 0
TryLockSharedOkIgnoresWriter(value) == BitAnd(value, UPGRADED) = 0
TryLockSharedOk(value) == BitAnd(value, BitOr(WRITER, UPGRADED)) = 0

\* try_lock_exclusive / lock_exclusive: compare_exchange(0, WRITER)
ExclusiveExchangeChecksReadersOnly(w) ==
    [ok |-> w \div READER = 0, word |-> IF w \div READER = 0 THEN BitOr(w, WRITER) ELSE w]
ExclusiveExchange(w) == compare_exchange(w, 0, WRITER)

\* try_lock_upgradable: `fetch_or(UPGRADED) & (WRITER | UPGRADED) == 0`
TryLockUpgradableWord(w) == fetch_or(w, UPGRADED)
TryLockUpgradableOkIgnoresWriter(value) == BitAnd(value, UPGRADED) = 0
TryLockUpgradableOkIgnoresUpgraded(value) == BitAnd(value, WRITER) = 0
TryLockUpgradableOk(value) == BitAnd(value, BitOr(WRITER, UPGRADED)) = 0

\* try_upgrade / upgrade: compare_exchange(UPGRADED, WRITER)
UpgradeExchangeIgnoresReaders(w) ==
    [ok |-> BitAnd(w, BitOr(WRITER, UPGRADED)) = UPGRADED,
     word |-> IF BitAnd(w, BitOr(WRITER, UPGRADED)) = UPGRADED
              THEN fetch_add(fetch_sub(w, UPGRADED), WRITER) ELSE w]
UpgradeExchangeExpectsReader(w) == compare_exchange(w, BitOr(UPGRADED, READER), WRITER)
UpgradeExchangeDropsWriter(w) == compare_exchange(w, UPGRADED, fetch_sub(WRITER, WRITER))
UpgradeExchange(w) == compare_exchange(w, UPGRADED, WRITER)

\* unlock_exclusive: fetch_and(!(WRITER | UPGRADED))
UnlockExclusiveWordKeepsUpgraded(w) == fetch_and(w, BitNot(WRITER))
UnlockExclusiveWord(w) == fetch_and(w, BitNot(BitOr(WRITER, UPGRADED)))

\* unlock_shared: fetch_sub(READER)
UnlockSharedWordSubtractsUpgraded(w) == fetch_sub(w, UPGRADED)
UnlockSharedWord(w) == fetch_sub(w, READER)

\* unlock_upgradable: fetch_sub(UPGRADED)
UnlockUpgradableWord(w) == fetch_sub(w, UPGRADED)

\* downgrade: step 1 is fetch_add(READER), step 2 is unlock_exclusive()
DowngradeWordUnlocksFirst(step, w) ==
    IF step = 1 THEN UnlockExclusiveWord(w) ELSE fetch_add(w, READER)
DowngradeWordKeepsUpgraded(step, w) ==
    IF step = 1 THEN fetch_add(w, READER) ELSE UnlockExclusiveWordKeepsUpgraded(w)
DowngradeWord(step, w) ==
    IF step = 1 THEN fetch_add(w, READER) ELSE UnlockExclusiveWord(w)

\* the fields of the word
ReaderField(w) == w \div READER
HasWriter(w) == BitAnd(w, WRITER) # 0
HasUpgraded(w) == BitAnd(w, UPGRADED) # 0

Idle(t) == pc[t] = "idle"

\* the closure of thread t may call a raw operation of its choice
Free(t) == task[t] = "free" /\ Idle(t)

Returned(t, op, ok) == last' = [last EXCEPT ![t] = <<op, ok>>]

\* ------------------------------------------------------------ lock steps
\* try_lock_shared, the fetch_add and the test of the previous value; on
\* failure the thread is left before its fetch_sub, at `undo`
SharedFetchAdd(t, op, undo) ==
    LET value == word IN
    /\ word' = fetch_add(word, READER)
    /\ IF TryLockSharedOk(value)
       THEN /\ hold' = [hold EXCEPT ![t] = "shared"]
            /\ pc' = [pc EXCEPT ![t] = "idle"]
            /\ Returned(t, op, TRUE)
       ELSE /\ hold' = hold
            /\ pc' = [pc EXCEPT ![t] = undo]
            /\ last' = [last EXCEPT ![t] = NoCall]

\* try_lock_shared, called by the closure: the fetch_add
TryLockShared(t) ==
    /\ Free(t) /\ hold[t] = "none"
    /\ SharedFetchAdd(t, "try_lock_shared", "tls_undo")
    /\ UNCHANGED <<task, datavars>>

\* try_lock_shared returning false without its corrective fetch_sub
TryLockSharedUndoSkipped(t) ==
    /\ pc[t] = "tls_undo"
    /\ word' = word
    /\ pc' = [pc EXCEPT ![t] = "idle"]
    /\ Returned(t, "try_lock_shared", FALSE)
    /\ UNCHANGED <<hold, task, datavars>>

\* try_lock_shared: the corrective fetch_sub; returns false
TryLockSharedUndo(t) ==
    /\ pc[t] = "tls_undo"
    /\ word' = fetch_sub(word, READER)
    /\ pc' = [pc EXCEPT ![t] = "idle"]
    /\ Returned(t, "try_lock_shared", FALSE)
    /\ UNCHANGED <<hold, task, datavars>>

\* lock_shared is entered
CallLockShared(t) ==
    /\ Free(t) /\ hold[t] = "none"
    /\ pc' = [pc EXCEPT ![t] = "lock_shared"]
    /\ last' = [last EXCEPT ![t] = NoCall]
    /\ UNCHANGED <<word, hold, task, datavars>>

\* lock_shared: one try_lock_shared of the loop, its fetch_add
LockSharedAdd(t) ==
    /\ pc[t] = "lock_shared"
    /\ SharedFetchAdd(t, "lock_shared", "ls_undo")
    /\ UNCHANGED <<task, datavars>>

\* lock_shared: the fetch_sub of a failed try, then spin_loop and retry
LockSharedUndo(t) ==
    /\ pc[t] = "ls_undo"
    /\ word' = fetch_sub(word, READER)
    /\ pc' = [pc EXCEPT ![t] = "lock_shared"]
    /\ UNCHANGED <<hold, last, task, datavars>>

\* try_lock_exclusive: compare_exchange(0, WRITER)
TryLockExclusive(t) ==
    /\ Free(t) /\ hold[t] = "none"
    /\ word' = ExclusiveExchange(word).word
    /\ IF ExclusiveExchange(word).ok
       THEN /\ hold' = [hold EXCEPT ![t] = "exclusive"]
            /\ Returned(t, "try_lock_exclusive", TRUE)
       ELSE /\ hold' = hold
            /\ Returned(t, "try_lock_exclusive", FALSE)
    /\ UNCHANGED <<pc, task, datavars>>

\* lock_exclusive is entered
CallLockExclusive(t) ==
    /\ Free(t) /\ hold[t] = "none"
    /\ pc' = [pc EXCEPT ![t] = "lock_exclusive"]
    /\ last' = [last EXCEPT ![t] = NoCall]
    /\ UNCHANGED <<word, hold, task, datavars>>

\* lock_exclusive: one compare_exchange_weak(0, WRITER) of the loop.  A
\* failed exchange, spurious or not, changes nothing and the loop retries:
\* it is a stuttering step.
LockExclusiveCas(t) ==
    /\ pc[t] = "lock_exclusive"
    /\ word' = ExclusiveExchange(word).word
    /\ IF ExclusiveExchange(word).ok
       THEN /\ hold' = [hold EXCEPT ![t] = "exclusive"]
            /\ pc' = [pc EXCEPT ![t] = "idle"]
            /\ Returned(t, "lock_exclusive", TRUE)
       ELSE /\ UNCHANGED <<hold, pc, last>>
    /\ UNCHANGED <<task, datavars>>

\* unlock_shared: fetch_sub(READER)
UnlockShared(t) ==
    /\ Free(t) /\ hold[t] = "shared"
    /\ word' = UnlockSharedWord(word)
    /\ hold' = [hold EXCEPT ![t] = "none"]
    /\ last' = [last EXCEPT ![t] = NoCall]
    /\ UNCHANGED <<pc, task, datavars>>

\* unlock_exclusive: fetch_and(!(WRITER | UPGRADED))
UnlockExclusive(t) ==
    /\ Free(t) /\ hold[t] = "exclusive"
    /\ word' = UnlockExclusiveWord(word)
    /\ hold' = [hold EXCEPT ![t] = "none"]
    /\ last' = [last EXCEPT ![t] = NoCall]
    /\ UNCHANGED <<pc, task, datavars>>

\* try_lock_upgradable: fetch_or(UPGRADED) and the test of the previous value
TryLockUpgradable(t) ==
    /\ Free(t) /\ hold[t] = "none"
    /\ word' = TryLockUpgradableWord(word)
    /\ IF TryLockUpgradableOk(word)
       THEN /\ hold' = [hold EXCEPT ![t] = "upgradable"]
            /\ Returned(t, "try_lock_upgradable", TRUE)
       ELSE /\ hold' = hold
            /\ Returned(t, "try_lock_upgradable", FALSE)
    /\ UNCHANGED <<pc, task, datavars>>

\* lock_upgradable is entered
CallLockUpgradable(t) ==
    /\ Free(t) /\ hold[t] = "none"
    /\ pc' = [pc EXCEPT ![t] = "lock_upgradable"]
    /\ last' = [last EXCEPT ![t] = NoCall]
    /\ UNCHANGED <<word, hold, task, datavars>>

\* lock_upgradable: one try_lock_upgradable of the loop
LockUpgradableTry(t) ==
    /\ pc[t] = "lock_upgradable"
    /\ word' = TryLockUpgradableWord(word)
    /\ IF TryLockUpgradableOk(word)
       THEN /\ hold' = [hold EXCEPT ![t] = "upgradable"]
            /\ pc' = [pc EXCEPT ![t] = "idle"]
            /\ Returned(t, "lock_upgradable", TRUE)
       ELSE /\ UNCHANGED <<hold, pc, last>>
    /\ UNCHANGED <<task, datavars>>

\* try_upgrade: compare_exchange(UPGRADED, WRITER)
TryUpgrade(t) ==
    /\ Free(t) /\ hold[t] = "upgradable"
    /\ word' = UpgradeExchange(word).word
    /\ IF UpgradeExchange(word).ok
       THEN /\ hold' = [hold EXCEPT ![t] = "exclusive"]
            /\ Returned(t, "try_upgrade", TRUE)
       ELSE /\ hold' = hold
            /\ Returned(t, "try_upgrade", FALSE)
    /\ UNCHANGED <<pc, task, datavars>>

\* upgrade is entered
CallUpgrade(t) ==
    /\ Free(t) /\ hold[t] = "upgradable"
    /\ pc' = [pc EXCEPT ![t] = "upgrade"]
    /\ last' = [last EXCEPT ![t] = NoCall]
    /\ UNCHANGED <<word, hold, task, datavars>>

\* upgrade: one compare_exchange_weak(UPGRADED, WRITER) of the loop.  A
\* failed exchange, spurious or not, changes nothing and the loop retries:
\* it is a stuttering step.
UpgradeCas(t) ==
    /\ pc[t] = "upgrade"
    /\ word' = UpgradeExchange(word).word
    /\ IF UpgradeExchange(word).ok
       THEN /\ hold' = [hold EXCEPT ![t] = "exclusive"]
            /\ pc' = [pc EXCEPT ![t] = "idle"]
            /\ Returned(t, "upgrade", TRUE)
       ELSE /\ UNCHANGED <<hold, pc, last>>
    /\ UNCHANGED <<task, datavars>>

\* unlock_upgradable: fetch_sub(UPGRADED)
UnlockUpgradable(t) ==
    /\ Free(t) /\ hold[t] = "upgradable"
    /\ word' = UnlockUpgradableWord(word)
    /\ hold' = [hold EXCEPT ![t] = "none"]
    /\ last' = [last EXCEPT ![t] = NoCall]
    /\ UNCHANGED <<pc, task, datavars>>

\* downgrade, first step: fetch_add(READER)
DowngradeAdd(t) ==
    /\ Free(t) /\ hold[t] = "exclusive"
    /\ word' = DowngradeWord(1, word)
    /\ pc' = [pc EXCEPT ![t] = "downgrade"]
    /\ last' = [last EXCEPT ![t] = NoCall]
    /\ UNCHANGED <<hold, task, datavars>>

\* downgrade, second step: unlock_exclusive; the guard is now a read guard
DowngradeUnlock(t) ==
    /\ pc[t] = "downgrade"
    /\ word' = DowngradeWord(2, word)
    /\ hold' = [hold EXCEPT ![t] = "shared"]
    /\ pc' = [pc EXCEPT ![t] = "idle"]
    /\ Returned(t, "downgrade", TRUE)
    /\ UNCHANGED <<task, datavars>>

\* ------------------------------------------------ the free-running client
\* RawRwSpinlock::INIT is AtomicUsize::new(0); every thread may call any raw
\* operation its guards allow
InitLock(T) ==
    /\ word = 0
    /\ pc = [t \in T |-> "idle"]
    /\ hold = [t \in T |-> "none"]
    /\ last = [t \in T |-> NoCall]

InitData(T) ==
    /\ data = 0
    /\ flag = FALSE
    /\ tmp = [t \in T |-> 0]
    /\ obs = [t \in T |-> "unread"]

Init ==
    /\ InitLock(Threads)
    /\ InitData(Threads)
    /\ task = [t \in Threads |-> "free"]

Next ==
    \E t \in Threads :
        \/ TryLockShared(t)
        \/ TryLockSharedUndo(t)
        \/ CallLockShared(t)
        \/ LockSharedAdd(t)
        \/ LockSharedUndo(t)
        \/ TryLockExclusive(t)
        \/ CallLockExclusive(t)
        \/ LockExclusiveCas(t)
        \/ UnlockShared(t)
        \/ UnlockExclusive(t)
        \/ TryLockUpgradable(t)
        \/ CallLockUpgradable(t)
        \/ LockUpgradableTry(t)
        \/ TryUpgrade(t)
        \/ CallUpgrade(t)
        \/ UpgradeCas(t)
        \/ UnlockUpgradable(t)
        \/ DowngradeAdd(t)
        \/ DowngradeUnlock(t)

Spec == Init /\ [][Next]_vars

\* every thread inside a raw operation, and every holder of a read guard,
\* is scheduled again: a step that stays enabled is eventually taken.  The
\* failing exchanges of the spin loops are stuttering steps, so a loop is
\* only required to leave when its exchange can succeed from some point on
\* (compare_exchange_weak does not fail spuriously for ever).
Progress(t) ==
    \/ TryLockSharedUndo(t)
    \/ LockSharedAdd(t)
    \/ LockSharedUndo(t)
    \/ LockExclusiveCas(t)
    \/ LockUpgradableTry(t)
    \/ UpgradeCas(t)
    \/ DowngradeUnlock(t)
    \/ UnlockShared(t)

FairSpec == Spec /\ \A t \in Threads : WF_vars(Progress(t))

\* ------------------------------------------------------- multiread_kernel
\* `RwLock::new(7)`; each spawned closure: `let lock = rclone.read();
\* assert_eq!(*lock, 7);` and the drop of the read guard
InitRead ==
    /\ InitLock(Workers)
    /\ data = 7
    /\ flag = FALSE
    /\ tmp = [t \in Workers |-> 0]
    /\ obs = [t \in Workers |-> "unread"]
    /\ task = [t \in Workers |-> "r_spawned"]

\* rclone.read() enters lock_shared
ReadLock(t) ==
    /\ task[t] = "r_spawned"
    /\ task' = [task EXCEPT ![t] = "r_locked"]
    /\ pc' = [pc EXCEPT ![t] = "lock_shared"]
    /\ UNCHANGED <<word, hold, last, datavars>>

\* `*lock` is read for the assertion
ReadLoad(t) ==
    /\ task[t] = "r_locked" /\ Idle(t) /\ hold[t] = "shared"
    /\ tmp' = [tmp EXCEPT ![t] = data]
    /\ task' = [task EXCEPT ![t] = "r_read"]
    /\ UNCHANGED <<lockvars, data, flag, obs>>

\* the read guard is dropped: unlock_shared
ReadDrop(t) ==
    /\ task[t] = "r_read"
    /\ word' = UnlockSharedWord(word)
    /\ hold' = [hold EXCEPT ![t] = "none"]
    /\ task' = [task EXCEPT ![t] = "done"]
    /\ UNCHANGED <<pc, last, datavars>>

\* ------------------------------------------------------ multiwrite_kernel
\* each spawned closure: `let mut lock = rclone.write(); *lock += 1;` and
\* the drop of the write guard
InitWrite ==
    /\ InitLock(Workers)
    /\ InitData(Workers)
    /\ task = [t \in Workers |-> "w_spawned"]

\* rclone.write() enters lock_exclusive
WriteLock(t) ==
    /\ task[t] = "w_spawned"
    /\ task' = [task EXCEPT ![t] = "w_locked"]
    /\ pc' = [pc EXCEPT ![t] = "lock_exclusive"]
    /\ UNCHANGED <<word, hold, last, datavars>>

\* `*lock += 1`: the load
WriteLoad(t) ==
    /\ task[t] = "w_locked" /\ Idle(t) /\ hold[t] = "exclusive"
    /\ tmp' = [tmp EXCEPT ![t] = data]
    /\ task' = [task EXCEPT ![t] = "w_loaded"]
    /\ UNCHANGED <<lockvars, data, flag, obs>>

\* `*lock += 1`: the store
WriteStore(t) ==
    /\ task[t] = "w_loaded"
    /\ data' = tmp[t] + 1
    /\ task' = [task EXCEPT ![t] = "w_stored"]
    /\ UNCHANGED <<lockvars, flag, tmp, obs>>

\* the write guard is dropped: unlock_exclusive
WriteDrop(t) ==
    /\ task[t] = "w_stored"
    /\ word' = UnlockExclusiveWord(word)
    /\ hold' = [hold EXCEPT ![t] = "none"]
    /\ task' = [task EXCEPT ![t] = "done"]
    /\ UNCHANGED <<pc, last, datavars>>

NextWrite ==
    \E t \in Workers :
        \/ WriteLock(t)
        \/ LockExclusiveCas(t)
        \/ WriteLoad(t)
        \/ WriteStore(t)
        \/ WriteDrop(t)

SpecWrite == InitWrite /\ [][NextWrite]_vars

\* -------------------------------------------------------- upgrade_kernel
\* closure i: `let lock = RwLock::upgradable_read(&rclone);` then, for even
\* i, `assert_eq!(lock.0, false)` and the drop of the upgradable guard; for
\* odd i, `RwLockUpgradableReadGuard::upgrade(lock)`, `lock.1 += 1` and the
\* drop of the write guard
Odd(t) == t % 2 = 1

InitUpgrade ==
    /\ InitLock(Workers)
    /\ InitData(Workers)
    /\ task = [t \in Workers |-> "u_spawned"]

\* upgradable_read enters lock_upgradable
UpgLock(t) ==
    /\ task[t] = "u_spawned"
    /\ task' = [task EXCEPT ![t] = "u_locked"]
    /\ pc' = [pc EXCEPT ![t] = "lock_upgradable"]
    /\ UNCHANGED <<word, hold, last, datavars>>

\* even i: reads lock.0
UpgReadFlag(t) ==
    /\ task[t] = "u_locked" /\ Idle(t) /\ hold[t] = "upgradable" /\ ~Odd(t)
    /\ obs' = [obs EXCEPT ![t] = IF flag THEN "true" ELSE "false"]
    /\ task' = [task EXCEPT ![t] = "u_read"]
    /\ UNCHANGED <<lockvars, data, flag, tmp>>

\* even i: the upgradable guard is dropped: unlock_upgradable
UpgDropUpgradable(t) ==
    /\ task[t] = "u_read"
    /\ word' = UnlockUpgradableWord(word)
    /\ hold' = [hold EXCEPT ![t] = "none"]
    /\ task' = [task EXCEPT ![t] = "done"]
    /\ UNCHANGED <<pc, last, datavars>>

\* odd i: RwLockUpgradableReadGuard::upgrade enters upgrade
UpgUpgrade(t) ==
    /\ task[t] = "u_locked" /\ Idle(t) /\ hold[t] = "upgradable" /\ Odd(t)
    /\ task' = [task EXCEPT ![t] = "u_upgraded"]
    /\ pc' = [pc EXCEPT ![t] = "upgrade"]
    /\ UNCHANGED <<word, hold, last, datavars>>

\* odd i: `lock.1 += 1`, the load
UpgLoad(t) ==
    /\ task[t] = "u_upgraded" /\ Idle(t) /\ hold[t] = "exclusive"
    /\ tmp' = [tmp EXCEPT ![t] = data]
    /\ task' = [task EXCEPT ![t] = "u_loaded"]
    /\ UNCHANGED <<lockvars, data, flag, obs>>

\* odd i: `lock.1 += 1`, the store
UpgStore(t) ==
    /\ task[t] = "u_loaded"
    /\ data' = tmp[t] + 1
    /\ task' = [task EXCEPT ![t] = "u_stored"]
    /\ UNCHANGED <<lockvars, flag, tmp, obs>>

\* odd i: the write guard is dropped: unlock_exclusive
UpgDropWrite(t) ==
    /\ task[t] = "u_stored"
    /\ word' = UnlockExclusiveWord(word)
    /\ hold' = [hold EXCEPT ![t] = "none"]
    /\ task' = [task EXCEPT ![t] = "done"]
    /\ UNCHANGED <<pc, last, datavars>>

NextUpgrade ==
    \E t \in Workers :
        \/ UpgLock(t)
        \/ LockUpgradableTry(t)
        \/ UpgReadFlag(t)
        \/ UpgDropUpgradable(t)
        \/ UpgUpgrade(t)
        \/ UpgradeCas(t)
        \/ UpgLoad(t)
        \/ UpgStore(t)
        \/ UpgDropWrite(t)

SpecUpgrade == InitUpgrade /\ [][NextUpgrade]_vars

\* ------------------------------------------------- the three test kernels
\* one run is one of multiread_kernel, multiwrite_kernel, upgrade_kernel
InitTests == InitRead \/ InitWrite \/ InitUpgrade

\* the steps of closure t, in whichever kernel runs.  No kernel mixes
\* readers with writers or upgraders, so the fetch_add of lock_shared never
\* sees WRITER or UPGRADED and its rollback has no step here: a closure
\* that reached the rollback would stay there and never finish.
TestStep(t) ==
    \/ ReadLock(t)
    \/ LockSharedAdd(t)
    \/ ReadLoad(t)
    \/ ReadDrop(t)
    \/ WriteLock(t)
    \/ LockExclusiveCas(t)
    \/ WriteLoad(t)
    \/ WriteStore(t)
    \/ WriteDrop(t)
    \/ UpgLock(t)
    \/ LockUpgradableTry(t)
    \/ UpgReadFlag(t)
    \/ UpgDropUpgradable(t)
    \/ UpgUpgrade(t)
    \/ UpgradeCas(t)
    \/ UpgLoad(t)
    \/ UpgStore(t)
    \/ UpgDropWrite(t)

NextTests == \E t \in Workers : TestStep(t)

\* every closure is scheduled weakly fairly; a failing exchange of a spin
\* loop is a stuttering step, so a loop is only required to leave when its
\* exchange can succeed from some point on
FairSpecTests ==
    InitTests /\ [][NextTests]_vars /\ \A t \in Workers : WF_vars(TestStep(t))

\* ================================================================ claims
Holders(m) == {t \in Threads : hold[t] = m}

\* threads between the fetch_add and the fetch_sub of a failing
\* try_lock_shared (called directly or by lock_shared)
InRollback == {t \in Threads : pc[t] \in {"tls_undo", "ls_undo"}}

\* threads between the two steps of downgrade
InDowngrade == {t \in Threads : pc[t] = "downgrade"}

\* C1: at most one thread holds the exclusive lock, and while a thread
\* holds it no thread holds a shared lock.
C1_MutualExclusion ==
    /\ Cardinality(Holders("exclusive")) <= 1
    /\ (Holders("exclusive") # {} => Holders("shared") = {})

\* C1 witness: a thread holds the exclusive lock while another thread's
\* try_lock_shared has met it and a third spins in lock_exclusive.
C1_Witness ==
    \E t, u, v \in Threads :
        /\ hold[t] = "exclusive"
        /\ pc[u] = "tls_undo"
        /\ pc[v] = "lock_exclusive"

\* C2: at most one thread holds the upgradable-read lock, none holds it
\* while another thread holds the exclusive lock, and every
\* try_lock_upgradable (also the one lock_upgradable runs in its loop)
\* executed while another thread holds the upgradable-read lock fails.
C2_SlotState ==
    /\ Cardinality(Holders("upgradable")) <= 1
    /\ (Holders("upgradable") # {} => Holders("exclusive") = {})

C2_SlotStep ==
    \A t \in Threads :
        (\E u \in Threads \ {t} : hold[u] = "upgradable") =>
            /\ TryLockUpgradable(t) => last'[t] = <<"try_lock_upgradable", FALSE>>
            /\ LockUpgradableTry(t) => hold'[t] = "none" /\ pc'[t] = "lock_upgradable"

C2_SingleUpgradeSlot == []C2_SlotState /\ [][C2_SlotStep]_vars

\* C2 witness: a try_lock_upgradable has returned false to one thread while
\* another holds the upgradable-read lock and a third spins in
\* lock_upgradable.
C2_Witness ==
    \E t, u, v \in Threads :
        /\ hold[u] = "upgradable"
        /\ last[t] = <<"try_lock_upgradable", FALSE>>
        /\ pc[v] = "lock_upgradable"
        /\ HasUpgraded(word) /\ ~HasWriter(word)

\* C3 as stated: the word never has the WRITER bit set together with a
\* nonzero READER field.
C3_Original == ~(HasWriter(word) /\ ReaderField(word) > 0)

\* C3 amended: whenever the WRITER bit is set, the READER field counts
\* only transient increments - the threads between the fetch_add and the
\* fetch_sub of a failing try_lock_shared and the thread between the two
\* steps of downgrade - and no thread holds a shared lock.
C3_WriterReaderTransient ==
    HasWriter(word) =>
        /\ ReaderField(word) = Cardinality(InRollback) + Cardinality(InDowngrade)
        /\ Holders("shared") = {}

\* C3 witness: WRITER is set and the READER field is 2, one unit from the
\* writer's downgrade in progress and one from a failing try_lock_shared.
C3_Witness ==
    /\ HasWriter(word)
    /\ ReaderField(word) = 2
    /\ InDowngrade # {}
    /\ InRollback # {}

\* C4 as stated: the word never has both the WRITER bit and the UPGRADED
\* bit set.
C4_Original == ~(HasWriter(word) /\ HasUpgraded(word))

\* some thread is inside the loop of upgrade(); the upgradable-read lock
\* has one holder, so it is one thread, and the loop is only left by the
\* successful compare-and-swap
InUpgrade == \E t \in Threads : pc[t] = "upgrade"

\* C5 as stated: with other threads free to spin in lock_shared,
\* lock_exclusive and lock_upgradable, an upgrade() that has been called
\* eventually returns.
C5_Original == InUpgrade ~> ~InUpgrade

\* no thread is inside try_lock_shared or lock_shared
NoSharedAttempt ==
    \A t \in Threads : pc[t] \notin {"tls_undo", "lock_shared", "ls_undo"}

\* C5 amended: if from some point on no thread is inside lock_shared or
\* try_lock_shared (threads may still spin in lock_exclusive and
\* lock_upgradable, and the shared holders release), an upgrade() that has
\* been called eventually returns.
C5_UpgradeReturns == (<>[]NoSharedAttempt) => (InUpgrade ~> ~InUpgrade)

\* C5 witness: upgrade() spins while one thread still holds a shared lock
\* and another spins in lock_upgradable.
C5_Witness ==
    \E t, u, v \in Threads :
        /\ pc[t] = "upgrade"
        /\ hold[u] = "shared"
        /\ pc[v] = "lock_upgradable"

\* C6 as stated: a try_upgrade by the upgradable-read holder returns true
\* if and only if no thread holds a shared lock at its compare-and-swap;
\* true makes the caller the exclusive holder, false leaves the word alone.
C6_OriginalStep ==
    \A t \in Threads :
        TryUpgrade(t) =>
            /\ (last'[t] = <<"try_upgrade", TRUE>>) <=> (Holders("shared") = {})
            /\ (last'[t] = <<"try_upgrade", TRUE>>) => hold'[t] = "exclusive"
            /\ (last'[t] = <<"try_upgrade", FALSE>>) => word' = word

C6_Original == [][C6_OriginalStep]_vars

\* C6 amended: try_upgrade returns true if and only if, at its
\* compare-and-swap, no thread holds a shared lock and no thread is between
\* the fetch_add and the fetch_sub of a failing try_lock_shared; true makes
\* the caller the exclusive holder, false leaves the word unchanged.
C6_TryUpgradeStep ==
    \A t \in Threads :
        TryUpgrade(t) =>
            /\ (last'[t] = <<"try_upgrade", TRUE>>) <=>
                   (Holders("shared") = {} /\ InRollback = {})
            /\ (last'[t] = <<"try_upgrade", TRUE>>) =>
                   hold'[t] = "exclusive" /\ Holders("exclusive")' = {t}
            /\ (last'[t] = <<"try_upgrade", FALSE>>) =>
                   word' = word /\ hold'[t] = "upgradable"

C6_TryUpgradeOutcome == [][C6_TryUpgradeStep]_vars

\* C6 witness: try_upgrade has returned false to the upgradable-read holder
\* although no thread holds a shared lock: a lock_shared was in its rollback
\* window.
C6_Witness ==
    \E t, u \in Threads :
        /\ last[t] = <<"try_upgrade", FALSE>>
        /\ hold[t] = "upgradable"
        /\ pc[u] = "ls_undo"
        /\ Holders("shared") = {}

\* the shared acquisitions not yet matched by an unlock_shared: the read
\* guards, and a downgrade from its fetch_add on
SharedAcquired == Holders("shared") \cup InDowngrade

\* C7 as stated: after every atomic operation the decoded reader count
\* equals the number of successful shared acquisitions not yet matched by
\* an unlock_shared.
C7_Original == ReaderField(word) = Cardinality(SharedAcquired)

\* C7 amended: the decoded reader count is never below the number of
\* unmatched successful shared acquisitions and equals it whenever no
\* thread is between the fetch_add and the fetch_sub of a failing
\* try_lock_shared; every unlock_shared lowers it by exactly one.
C7_CountState ==
    /\ ReaderField(word) >= Cardinality(SharedAcquired)
    /\ (InRollback = {} => ReaderField(word) = Cardinality(SharedAcquired))

C7_CountStep ==
    \A t \in Threads :
        UnlockShared(t) =>
            /\ ReaderField(word') = ReaderField(word) - 1
            /\ word' % READER = word % READER

C7_ReaderCount == []C7_CountState /\ [][C7_CountStep]_vars

\* C7 witness: every thread has returned from lock_shared, none has
\* unlocked, and the decoded count is the number of threads.
C7_Witness ==
    /\ \A t \in Threads : last[t] = <<"lock_shared", TRUE>> /\ hold[t] = "shared"
    /\ ReaderField(word) = NThreads

\* thread t holds the exclusive lock (also between the two steps of its
\* downgrade) or the read guard its downgrade produced
Downgrading(t) ==
    \/ hold[t] = "exclusive"
    \/ hold[t] = "shared" /\ last[t] = <<"downgrade", TRUE>>

\* C8: from the exclusive acquisition through both steps of downgrade until
\* the unlock_shared of the resulting read guard, the word is never 0 and
\* no other thread acquires the exclusive lock or completes an upgrade;
\* between the two steps of downgrade no other thread acquires any mode.
C8_WindowState ==
    \A t \in Threads :
        Downgrading(t) =>
            /\ word # 0
            /\ \A u \in Threads \ {t} : hold[u] # "exclusive"

C8_WindowStep ==
    \A t \in Threads : \A u \in Threads \ {t} :
        /\ Downgrading(t) /\ hold'[u] = "exclusive" => hold[u] = "exclusive"
        /\ pc[t] = "downgrade" => hold'[u] \in {hold[u], "none"}

C8_DowngradeWindow == []C8_WindowState /\ [][C8_WindowStep]_vars

\* C8 witness: a thread holds the read guard its downgrade produced while
\* one thread spins in lock_exclusive and another in upgrade.
C8_Witness ==
    \E t, u, v \in Threads :
        /\ hold[t] = "shared" /\ last[t] = <<"downgrade", TRUE>>
        /\ pc[u] = "lock_exclusive"
        /\ pc[v] = "upgrade"

AllDone == \A t \in Workers : task[t] = "done"

\* C9: in multiwrite_kernel the final value is the number of threads, and
\* no two threads are between the load and the store of `*lock += 1` at the
\* same time.
C9_NoLostUpdate ==
    /\ AllDone => data = NWorkers
    /\ Cardinality({t \in Workers : task[t] = "w_loaded"}) <= 1

\* C9 witness: every thread has finished and the value is their number.
C9_Witness == AllDone /\ data = NWorkers /\ word = 0

\* C10: in upgrade_kernel every even-indexed thread reads false and the
\* final integer is the number of odd-indexed threads.
C10_UpgradeResult ==
    /\ \A t \in Workers : ~Odd(t) => obs[t] \in {"unread", "false"}
    /\ AllDone => data = Cardinality({t \in Workers : Odd(t)})

\* C10 witness: every thread has finished, the even ones have read false
\* and the integer counts the odd ones.
C10_Witness ==
    /\ AllDone
    /\ \A t \in Workers : ~Odd(t) => obs[t] = "false"
    /\ data = Cardinality({t \in Workers : Odd(t)})
    /\ data >= 2

\* no thread owns a guard and no thread is inside a raw operation
Quiescent == \A t \in Threads : hold[t] = "none" /\ pc[t] = "idle"

\* C11: whenever every acquisition has been matched by its release and no
\* operation is in progress, whatever try_* calls failed on the way, the
\* word is exactly 0.
C11_QuiescentUnlocked == Quiescent => word = 0

\* C11 witness: the lock is quiescent after a try_lock_upgradable and a
\* try_lock_shared have failed against holders that have since released.
C11_Witness ==
    /\ Quiescent
    /\ word = 0
    /\ \E t, u \in Threads :
        /\ last[t] = <<"try_lock_upgradable", FALSE>>
        /\ last[u] = <<"try_lock_shared", FALSE>>

\* ------------------------------------------------- the round trip of C12
\* each closure: lock_exclusive(), downgrade(), unlock_shared()
InitRoundTrip ==
    /\ InitLock(Workers)
    /\ InitData(Workers)
    /\ task = [t \in Workers |-> "rt_spawned"]

\* lock_exclusive is entered
RtLock(t) ==
    /\ task[t] = "rt_spawned"
    /\ task' = [task EXCEPT ![t] = "rt_locked"]
    /\ pc' = [pc EXCEPT ![t] = "lock_exclusive"]
    /\ UNCHANGED <<word, hold, last, datavars>>

\* downgrade, first step: fetch_add(READER)
RtDowngradeAdd(t) ==
    /\ task[t] = "rt_locked" /\ Idle(t) /\ hold[t] = "exclusive"
    /\ word' = DowngradeWord(1, word)
    /\ pc' = [pc EXCEPT ![t] = "downgrade"]
    /\ task' = [task EXCEPT ![t] = "rt_downgraded"]
    /\ UNCHANGED <<hold, last, datavars>>

\* unlock_shared: fetch_sub(READER)
RtUnlockShared(t) ==
    /\ task[t] = "rt_downgraded" /\ Idle(t) /\ hold[t] = "shared"
    /\ word' = UnlockSharedWord(word)
    /\ hold' = [hold EXCEPT ![t] = "none"]
    /\ task' = [task EXCEPT ![t] = "done"]
    /\ UNCHANGED <<pc, last, datavars>>

NextRoundTrip ==
    \E t \in Workers :
        \/ RtLock(t)
        \/ LockExclusiveCas(t)
        \/ RtDowngradeAdd(t)
        \/ DowngradeUnlock(t)
        \/ RtUnlockShared(t)

SpecRoundTrip == InitRoundTrip /\ [][NextRoundTrip]_vars

\* no thread but t is active: the others have not started or have finished
Alone(t) == \A u \in Workers \ {t} : task[u] \in {"rt_spawned", "done"}

\* the word at each point of the round trip of a thread that runs alone
RoundTripWord(t) ==
    IF hold[t] = "exclusive" THEN (IF pc[t] = "downgrade" THEN WRITER + READER ELSE WRITER)
    ELSE IF hold[t] = "shared" THEN READER
    ELSE 0

\* C12: with no other thread active, lock_exclusive takes the word from 0
\* to WRITER, downgrade to WRITER + READER and then READER, and
\* unlock_shared back to 0, the value it had before lock_exclusive.
C12_RoundTrip == \A t \in Workers : Alone(t) => word = RoundTripWord(t)

\* C12 witness: one thread has run the whole round trip, no other thread
\* has started, and the word is 0 again.
C12_Witness ==
    \E t \in Workers :
        /\ task[t] = "done" /\ last[t] = <<"downgrade", TRUE>>
        /\ \A u \in Workers \ {t} : task[u] = "rt_spawned"
        /\ word = 0

\* t's fetch_add saw WRITER or UPGRADED: the try moves on to its rollback
FailedAddStep(t) == pc[t] \in {"idle", "lock_shared"} /\ pc'[t] \in {"tls_undo", "ls_undo"}

\* t's corrective fetch_sub
RollbackStep(t) == pc[t] \in {"tls_undo", "ls_undo"} /\ pc'[t] \notin {"tls_undo", "ls_undo"}

\* the WRITER and UPGRADED bits of the word
LowBits(w) == BitAnd(w, BitOr(WRITER, UPGRADED))

\* C13: a failing try_lock_shared adds exactly one READER increment with its
\* fetch_add and subtracts exactly one with its rollback, never changes the
\* WRITER or UPGRADED bit or any thread's hold, and returns false; so its
\* total contribution to the word is zero, and with no step of another
\* thread in between the word is back at its value before the call.
C13_FailedTryNetZero ==
    [][\A t \in Threads :
        /\ FailedAddStep(t) =>
            /\ word' = word + READER
            /\ LowBits(word') = LowBits(word)
            /\ hold' = hold
        /\ RollbackStep(t) =>
            /\ word >= READER
            /\ word' = word - READER
            /\ LowBits(word') = LowBits(word)
            /\ hold' = hold
            /\ pc[t] = "tls_undo" => last'[t] = <<"try_lock_shared", FALSE>>]_vars

\* C13 witness: a try_lock_shared has returned false under a writer, and the
\* word is the writer's word again.
C13_Witness ==
    \E t, u \in Threads :
        /\ last[t] = <<"try_lock_shared", FALSE>>
        /\ hold[u] = "exclusive" /\ pc[u] = "idle"
        /\ word = WRITER

\* C14 as stated: a try_lock_upgradable that returns false, called directly
\* or from the loop of lock_upgradable, leaves the word as it was before its
\* fetch_or, whether UPGRADED was already set or WRITER was set with
\* UPGRADED clear.
C14_Original ==
    [][\A t \in Threads :
        (TryLockUpgradable(t) \/ LockUpgradableTry(t)) /\ ~TryLockUpgradableOk(word)
            => word' = word]_vars

\* a live upgrade slot has UPGRADED set and WRITER clear
C15_SlotState ==
    \A t \in Threads : hold[t] = "upgradable" => HasUpgraded(word) /\ ~HasWriter(word)

\* a writer's release (unlock_exclusive, alone or as the second step of
\* downgrade) happens with no upgradable holder; unlock_upgradable finds
\* UPGRADED set and changes no other bit
C15_SlotStep ==
    \A t \in Threads :
        /\ hold[t] = "exclusive" /\ hold'[t] # "exclusive" =>
            /\ Holders("upgradable") = {}
            /\ ~HasUpgraded(word')
        /\ hold[t] = "upgradable" /\ hold'[t] = "none" =>
            /\ HasUpgraded(word)
            /\ word' = word - UPGRADED
            /\ ReaderField(word') = ReaderField(word)
            /\ HasWriter(word') = HasWriter(word)

\* C15: while a thread holds the upgradable-read lock the UPGRADED bit is
\* set and the WRITER bit clear; unlock_exclusive, alone or inside
\* downgrade, only ever clears UPGRADED when no thread holds the
\* upgradable-read lock, and the fetch_sub(UPGRADED) of unlock_upgradable
\* finds the bit set and changes no other bit.
C15_LiveSlotKept == []C15_SlotState /\ [][C15_SlotStep]_vars

\* C15 witness: a writer's unlock_exclusive has run inside downgrade and a
\* thread holds the upgradable-read lock, with UPGRADED set and WRITER clear.
C15_Witness ==
    \E t, v \in Threads :
        /\ hold[t] = "upgradable" /\ last[t] = <<"try_lock_upgradable", TRUE>>
        /\ hold[v] = "shared" /\ last[v] = <<"downgrade", TRUE>>
        /\ word = UPGRADED + READER

\* what a step may do while some thread holds the upgradable-read lock
C16_HoldStep ==
    Holders("upgradable") # {} =>
        \A t \in Threads :
            /\ hold[t] # "shared" => hold'[t] # "shared"
            /\ TryLockShared(t) \/ LockSharedAdd(t) => pc'[t] \in {"tls_undo", "ls_undo"}
            /\ pc[t] = "tls_undo" /\ pc'[t] = "idle" => last'[t] = <<"try_lock_shared", FALSE>>
            /\ hold[t] = "shared" =>
                \/ hold'[t] = "shared"
                \/ hold'[t] = "none" /\ word' = word - READER

\* C16: while a thread holds the upgradable-read lock, every try_lock_shared
\* (called directly or from lock_shared) fails and rolls back, so no thread
\* starts holding a shared lock; a shared lock taken earlier stays held
\* beside the upgradable one until its own unlock_shared.
C16_UpgraderPriority == [][C16_HoldStep]_vars

\* C16 witness: a reader that acquired first still holds beside the
\* upgradable holder, and a third thread's try_lock_shared has returned
\* false.
C16_Witness ==
    \E t, u, v \in Threads :
        /\ hold[t] = "upgradable"
        /\ hold[u] = "shared" /\ last[u] = <<"try_lock_shared", TRUE>>
        /\ last[v] = <<"try_lock_shared", FALSE>> /\ hold[v] = "none"
        /\ word = UPGRADED + READER

\* C17: in multiread_kernel, multiwrite_kernel and upgrade_kernel, with
\* every thread's steps scheduled weakly fairly, every thread eventually
\* finishes, and every reachable state in which some thread has not
\* finished has a step that changes the state.
C17_TestsTerminate ==
    /\ <>AllDone
    /\ [](AllDone \/ ENABLED <<NextTests>>_vars)

\* C17 witness: upgrade_kernel has finished, threads having left the loops
\* of lock_upgradable and of upgrade, and the lock is unlocked.
C17_Witness ==
    /\ AllDone
    /\ word = 0
    /\ \E t, u \in Workers :
        /\ last[t] = <<"upgrade", TRUE>>
        /\ last[u] = <<"lock_upgradable", TRUE>>

\* the READER field counts the shared holders, the failing tries between
\* their fetch_add and fetch_sub, and the downgrades between their two steps
C18_FieldState ==
    ReaderField(word) =
        Cardinality(Holders("shared")) + Cardinality(InRollback) + Cardinality(InDowngrade)

\* an unlock_shared or a rollback takes one unit from a non-zero field and
\* leaves the WRITER and UPGRADED bits alone
C18_FieldStep ==
    \A t \in Threads :
        (hold[t] = "shared" /\ hold'[t] = "none") \/ RollbackStep(t) =>
            /\ ReaderField(word) >= 1
            /\ word' = word - READER
            /\ LowBits(word') = LowBits(word)

\* C18: in every reachable state the READER field equals the number of
\* threads holding a shared lock plus the number inside a failing
\* try_lock_shared between its fetch_add and its fetch_sub plus the number
\* between the two steps of downgrade; no unlock_shared or rollback
\* underflows the field or borrows from the WRITER and UPGRADED bits.
C18_ExactAccounting == []C18_FieldState /\ [][C18_FieldStep]_vars

\* C18 witness: the field is 2, one unit a reader's hold and one a failing
\* try_lock_shared in its window, beside an upgradable holder.
C18_Witness ==
    \E t, u, v \in Threads :
        /\ hold[t] = "shared"
        /\ hold[u] = "upgradable"
        /\ pc[v] = "tls_undo"
        /\ word = UPGRADED + READER + READER

\* a set UPGRADED bit has a thread that will clear it
C19_OwnedState ==
    HasUpgraded(word) => \E t \in Threads : hold[t] \in {"upgradable", "exclusive"}

\* a writer's release, by unlock_exclusive or by the second step of
\* downgrade, leaves neither WRITER nor UPGRADED set
C19_ReleaseStep ==
    \A t \in Threads :
        hold[t] = "exclusive" /\ hold'[t] # "exclusive" =>
            ~HasUpgraded(word') /\ ~HasWriter(word')

\* C19: whenever the UPGRADED bit is set, some thread holds the
\* upgradable-read lock or the exclusive lock (a thread between the two
\* steps of downgrade included); the bit a failed try_lock_upgradable set
\* beside a writer is cleared when that writer releases, so UPGRADED is
\* never left set with no thread able to clear it.
C19_UpgradedNeverLeaks == []C19_OwnedState /\ [][C19_ReleaseStep]_vars

\* C19 witness: a try_lock_upgradable has failed against a writer that is
\* now between the two steps of downgrade; UPGRADED is set and no thread
\* holds the upgradable-read lock.
C19_Witness ==
    /\ word = WRITER + UPGRADED + READER
    /\ InDowngrade # {}
    /\ Holders("upgradable") = {}
    /\ \E u \in Threads : last[u] = <<"try_lock_upgradable", FALSE>>

====
